---- MODULE Spec2Model ----
(***************************************************************************)
(* A model of the prayer-time engine of src/test.py (class PrayTimes) and  *)
(* of the way src/accounts/views.py drives it.                             *)
(*                                                                         *)
(* Numbers.  A time is a Python float of hours.  Here it is an integer     *)
(* count of ticks, H ticks to the hour, or the value NaN.  A double keeps  *)
(* fewer fractional digits the larger the number is; the model keeps that  *)
(* one property of the format: below 16 hours every tick is representable, *)
(* from 16 hours on only every fourth one (Fl rounds to the nearest).      *)
(* Angle specs ("18", "17.5", "90 min") are evaluated in thousandths.      *)
(*                                                                         *)
(* Strings are sequences of one-character strings, so that "%02d:%02d"     *)
(* and strptime(.., "%H:%M") are computed character by character.          *)
(***************************************************************************)
EXTENDS Integers, Sequences, FiniteSets, TLC

\* ---------------------------------------------------------------- numbers

\* ticks per hour, per minute, and the half minute getFormattedTime adds
H == 24 * 700
Minute == H \div 60
HalfMinute == H \div 120
Day == 24 * H

\* float('nan'): a value outside every range of times the model uses
NaN == 0 - 1000000000

isnan(x) == x = NaN

Abs(x) == IF x < 0 THEN 0 - x ELSE x

\* the nearest representable value (ties to the even multiple)
Fl(x) ==
    IF Abs(x) < 16 * H THEN x
    ELSE LET lo == (x \div 4) * 4
             r  == x - lo
         IN  IF r = 0 THEN x
             ELSE IF r = 1 THEN lo
             ELSE IF r = 3 THEN lo + 4
             ELSE IF (lo \div 4) % 2 = 0 THEN lo ELSE lo + 4

\* float addition, subtraction: NaN is contagious, the result is rounded
Add(a, b) == IF isnan(a) \/ isnan(b) THEN NaN ELSE Fl(a + b)
Sub(a, b) == IF isnan(a) \/ isnan(b) THEN NaN ELSE Fl(a - b)
RECURSIVE GCD(_, _)
GCD(a, b) == IF b = 0 THEN a ELSE GCD(b, a % b)

\* a * p / q for a rational factor p/q with p >= 0, q > 0 (the fraction is
\* reduced first, to keep the product small)
Scale(a, p, q) ==
    IF isnan(a) THEN NaN
    ELSE LET g == GCD(p, q) IN Fl((a * (p \div g)) \div (q \div g))
\* a > b in Python: False when either side is NaN
Gt(a, b) == ~isnan(a) /\ ~isnan(b) /\ a > b

\* ------------------------------------------------------------ fix, fixhour

\* def fix(self, a, mode)
fix(a, mode) ==
    IF isnan(a) THEN a
    ELSE LET a1 == Fl(a - mode * (a \div mode))
         IN  IF a1 < 0 THEN Fl(a1 + mode) ELSE a1

fixhour(hour) == fix(hour, Day)

\* def timeDiff(self, time1, time2)
timeDiff(time1, time2) == fixhour(Sub(time2, time1))

\* ---------------------------------------------------------------- strings

Digits == <<"0", "1", "2", "3", "4", "5", "6", "7", "8", "9">>

DigitChar(d) == Digits[d + 1]

IsDigit(c) == \E d \in 0..9 : DigitChar(d) = c

DigitVal(c) == CHOOSE d \in 0..9 : DigitChar(d) = c

\* "%d" % n, n >= 0
RECURSIVE Dec(_)
Dec(n) == IF n < 10 THEN <<DigitChar(n)>> ELSE Dec(n \div 10) \o <<DigitChar(n % 10)>>

\* "%02d" % n, n >= 0
Dec02(n) == IF n < 10 THEN <<"0", DigitChar(n)>> ELSE Dec(n)

\* values of the result mapping: a string, or (format 'Float') a number
StrV(s) == [str |-> s]
FltV(x) == [flt |-> x]
IsStr(v) == DOMAIN v = {"str"}

timeSuffixes == <<<<"a", "m">>, <<"p", "m">>>>
invalidTime == <<"-", "-", "-", "-", "-">>

Formats == {"24h", "12h", "Float"}

\* ---------------------------------------------------------- TimeFormatter

\* def getFormattedTime(self, time, format, suffixes = None)
getFormattedTime(time, format) ==
    IF isnan(time) THEN StrV(invalidTime)
    ELSE IF format = "Float" THEN FltV(time)
    ELSE LET t       == fixhour(Add(time, HalfMinute))
             hours   == t \div H
             minutes == ((t - hours * H) * 60) \div H
             suffix  == IF format = "12h"
                        THEN timeSuffixes[IF hours < 12 THEN 1 ELSE 2]
                        ELSE << >>
             body    == IF format = "24h"
                        THEN Dec02(hours) \o <<":">> \o Dec02(minutes)
                        ELSE Dec(((hours + 11) % 12) + 1) \o <<":">> \o Dec02(minutes)
         IN  StrV(body \o suffix)

\* datetime.strptime(time_str, "%H:%M"): %H is one or two digits up to 23,
\* %M one or two digits up to 59, and the whole string must be consumed.
\* The result says which exception is raised, or carries hour and minute.
parse_time(v) ==
    IF ~IsStr(v) THEN [raised |-> "TypeError", hour |-> 0, minute |-> 0]
    ELSE LET s == v.str
             colon == {i \in 1..Len(s) : s[i] = ":"}
             ok == /\ Cardinality(colon) = 1
                   /\ LET c == CHOOSE i \in colon : TRUE
                      IN  /\ c \in 2..3
                          /\ Len(s) - c \in 1..2
                          /\ \A i \in (1..Len(s)) \ {c} : IsDigit(s[i])
             Num(from, to) ==
                 IF from = to THEN DigitVal(s[from])
                 ELSE 10 * DigitVal(s[from]) + DigitVal(s[to])
         IN  IF ~ok THEN [raised |-> "ValueError", hour |-> 0, minute |-> 0]
             ELSE LET c == CHOOSE i \in colon : TRUE
                      h == Num(1, c - 1)
                      m == Num(c + 1, Len(s))
                  IN  IF h > 23 \/ m > 59
                      THEN [raised |-> "ValueError", hour |-> 0, minute |-> 0]
                      ELSE [raised |-> "none", hour |-> h, minute |-> m]

\* ---------------------------------------------------------- MethodRegistry

\* An angle spec is a number (18, 17.5), a string "<N> min", or a name
\* ('Standard', 'Jafari', 'NightMiddle').  n is in thousandths.
DegS(n) == [t |-> "num", n |-> n, s |-> ""]
MinS(n) == [t |-> "min", n |-> n, s |-> ""]
NameS(s) == [t |-> "name", n |-> 0, s |-> s]

\* a Python dict as a function; d.update(p)
Update(d, p) == [k \in DOMAIN d \cup DOMAIN p |-> IF k \in DOMAIN p THEN p[k] ELSE d[k]]

timeNames == {"imsak", "fajr", "sunrise", "dhuhr", "asr", "sunset", "maghrib", "isha", "midnight"}

\* the keys of PrayTimes.methods, in the order the dict literal lists them
MethodOrder == <<"MWL", "ISNA", "Egypt", "Makkah", "Karachi", "Tehran", "Jafari">>

MethodNames == {MethodOrder[i] : i \in 1..Len(MethodOrder)}

\* PrayTimes.methods[..]['params'] as the class body defines them
methodsLiteral ==
    [m \in MethodNames |->
        CASE m = "MWL"     -> [fajr |-> DegS(18000), isha |-> DegS(17000)]
          [] m = "ISNA"    -> [fajr |-> DegS(15000), isha |-> DegS(15000)]
          [] m = "Egypt"   -> [fajr |-> DegS(19500), isha |-> DegS(17500)]
          [] m = "Makkah"  -> [fajr |-> DegS(18500), isha |-> MinS(90000)]
          [] m = "Karachi" -> [fajr |-> DegS(18000), isha |-> DegS(18000)]
          [] m = "Tehran"  -> [fajr |-> DegS(17700), isha |-> DegS(14000),
                               maghrib |-> DegS(4500), midnight |-> NameS("Jafari")]
          [] m = "Jafari"  -> [fajr |-> DegS(16000), isha |-> DegS(14000),
                               maghrib |-> DegS(4000), midnight |-> NameS("Jafari")]]

defaultParams == [maghrib |-> MinS(0), midnight |-> NameS("Standard")]

\* PrayTimes.settings as the class body defines it
settingsLiteral ==
    [imsak |-> MinS(10000), dhuhr |-> MinS(0), asr |-> NameS("Standard"),
     highLats |-> NameS("NightMiddle")]

\* __init__, lines 141-144: every method missing a default parameter gets it
WithDefaults(ms) ==
    [m \in DOMAIN ms |->
        Update(ms[m], [name \in DOMAIN defaultParams \ DOMAIN ms[m] |-> defaultParams[name]])]

\* ------------------------------------------------------------ eval, isMin

\* def eval(self, st): the leading numeric token of str(st), 0 when there is
\* none (a name such as 'Standard' starts with no numeric character)
eval(st) == IF st.t = "name" THEN 0 ELSE st.n

\* def isMin(self, arg)
isMin(arg) == arg.t = "min"

\* eval(spec) / 60.0 as hours: thousandths of a minute to ticks
MinutesToHours(e) == Scale(e, H, 60000)

\* def asrFactor(self, asrParam), in thousandths
asrFactor(asrParam) ==
    IF asrParam = NameS("Standard") THEN 1000
    ELSE IF asrParam = NameS("Hanafi") THEN 2000
    ELSE eval(asrParam)

\* ------------------------------------------------------ HighLatitudeCorrector

\* def nightPortion(self, angle, night)
nightPortion(params, angle, night) ==
    LET method == params.highLats
    IN  IF method = NameS("OneSeventh") THEN Scale(night, 1, 7)
        ELSE IF method = NameS("AngleBased") THEN Scale(night, angle, 60000)
        ELSE Scale(night, 1, 2)

AdjustHLTimeNoNanTest(params, time, base, angle, night, direction) ==
    LET portion == nightPortion(params, angle, night)
        diff == IF direction = "ccw" THEN timeDiff(time, base) ELSE timeDiff(base, time)
    IN  IF Gt(diff, portion)
        THEN (IF direction = "ccw" THEN Sub(base, portion) ELSE Add(base, portion))
        ELSE time

\* def adjustHLTime(self, time, base, angle, night, direction = None)
adjustHLTime(params, time, base, angle, night, direction) ==
    LET portion == nightPortion(params, angle, night)
        diff == IF direction = "ccw" THEN timeDiff(time, base) ELSE timeDiff(base, time)
    IN  IF isnan(time) \/ Gt(diff, portion)
        THEN (IF direction = "ccw" THEN Sub(base, portion) ELSE Add(base, portion))
        ELSE time

\* def adjustHighLats(self, times)
adjustHighLats(params, times) ==
    LET nightTime == timeDiff(times.sunset, times.sunrise)
    IN  [times EXCEPT
            !.imsak   = adjustHLTime(params, times.imsak, times.sunrise, eval(params.imsak), nightTime, "ccw"),
            !.fajr    = adjustHLTime(params, times.fajr, times.sunrise, eval(params.fajr), nightTime, "ccw"),
            !.isha    = adjustHLTime(params, times.isha, times.sunset, eval(params.isha), nightTime, "cw"),
            !.maghrib = adjustHLTime(params, times.maghrib, times.sunset, eval(params.maghrib), nightTime, "cw")]

\* ---------------------------------------------------------------- adjustTimes

\* adjustTimes, lines 315-323: the minute-based overrides and the dhuhr offset
MinuteOverrides(params, times) ==
    LET t1 == IF isMin(params.imsak)
              THEN [times EXCEPT !.imsak = Sub(times.fajr, MinutesToHours(eval(params.imsak)))]
              ELSE times
        t2 == IF isMin(params.maghrib)
              THEN [t1 EXCEPT !.maghrib = Sub(t1.sunset, MinutesToHours(eval(params.maghrib)))]
              ELSE t1
        t3 == IF isMin(params.isha)
              THEN [t2 EXCEPT !.isha = Sub(t2.maghrib, MinutesToHours(eval(params.isha)))]
              ELSE t2
    IN  [t3 EXCEPT !.dhuhr = Add(t3.dhuhr, MinutesToHours(eval(params.dhuhr)))]

\* def adjustTimes(self, times)
adjustTimes(params, times, tzAdjust) ==
    LET shifted == [t \in DOMAIN times |-> Add(times[t], tzAdjust)]
        hl == IF params.highLats # NameS("None")
              THEN adjustHighLats(params, shifted)
              ELSE shifted
    IN  MinuteOverrides(params, hl)

\* def tuneTimes(self, times)
tuneTimes(offs, times) ==
    [name \in DOMAIN times |-> Add(times[name], Scale(offs[name], H, 60))]

\* def modifyFormats(self, times)
modifyFormats(times, format) ==
    [name \in DOMAIN times |-> getFormattedTime(times[name], format)]

\* ------------------------------------------------- SolarGeometry, TimeSolver

(***************************************************************************)
(* sunPosition, midDay and the arccos of sunAngleTime are trigonometry on  *)
(* the date and the coordinates.  The model replaces them by a table: a    *)
(* sky is one (date, coordinates, timezone) argument triple, and carries   *)
(* what the trigonometry yields for it: solar noon, the hour angle of the  *)
(* horizon crossing and its growth per half degree of depression, the      *)
(* deepest depression and the noon altitude the sun reaches that day       *)
(* (outside of which arccos raises ValueError), lng / 15 and the timezone. *)
(* Sky 1 is a mid-latitude day, sky 2 a high-latitude summer night in      *)
(* which the sun never sinks 15 degrees, sky 3 a polar day without sunset. *)
(***************************************************************************)
Skies ==
    <<[noon |-> 12 * H + 2000, half |-> 5 * H, rate |-> 840,
       maxDep |-> 60000, noonAlt |-> 40000, lng15 |-> 0 - (8 * H + 400),
       timezone |-> 0 - 8 * H, elv |-> 0],
      [noon |-> 12 * H + 400, half |-> 9 * H, rate |-> 1680,
       maxDep |-> 12000, noonAlt |-> 50000, lng15 |-> 0 - (8 * H + 400),
       timezone |-> 0 - 8 * H, elv |-> 100],
      [noon |-> 12 * H, half |-> 12 * H, rate |-> 0,
       maxDep |-> 0 - 3000, noonAlt |-> 33000, lng15 |-> 0,
       timezone |-> 0, elv |-> 0]>>

\* math.sqrt on the elevations the skies use
Sqrt(n) == CHOOSE r \in 0..n : r * r = n

\* def riseSetAngle(self, elevation = 0), in thousandths of a degree
riseSetAngle(elevation) == 833 + (347 * Sqrt(elevation)) \div 10

\* def midDay(self, time)
midDay(sky, time) == fixhour(sky.noon)

\* def sunAngleTime(self, angle, time, direction = None): NaN where the sun
\* does not reach the angle (the except ValueError branch)
sunAngleTime(sky, angle, time, direction) ==
    IF angle > sky.maxDep \/ angle < 0 - sky.noonAlt THEN NaN
    ELSE LET noon == midDay(sky, time)
             t == sky.half + (angle \div 500) * sky.rate
         IN  IF direction = "ccw" THEN Sub(noon, t) ELSE Add(noon, t)

\* def asrTime(self, factor, time); the shadow angle
\* -arccot(factor + tan|lat - decl|) lies between the horizon and noon
asrTime(sky, factor, time) ==
    LET angle == 0 - ((sky.noonAlt * 1000) \div (1000 + factor))
    IN  sunAngleTime(sky, angle, time, "cw")

\* computeTimes, lines 288-291: the seeds, and dayPortion
SeedTimes ==
    [imsak |-> 5, fajr |-> 5, sunrise |-> 6, dhuhr |-> 12,
     asr |-> 13, sunset |-> 18, maghrib |-> 18, isha |-> 18]

\* def computePrayerTimes(self, times)
computePrayerTimes(params, sky, times) ==
    [imsak   |-> sunAngleTime(sky, eval(params.imsak), times.imsak, "ccw"),
     fajr    |-> sunAngleTime(sky, eval(params.fajr), times.fajr, "ccw"),
     sunrise |-> sunAngleTime(sky, riseSetAngle(sky.elv), times.sunrise, "ccw"),
     dhuhr   |-> midDay(sky, times.dhuhr),
     asr     |-> asrTime(sky, asrFactor(params.asr), times.asr),
     sunset  |-> sunAngleTime(sky, riseSetAngle(sky.elv), times.sunset, "cw"),
     maghrib |-> sunAngleTime(sky, eval(params.maghrib), times.maghrib, "cw"),
     isha    |-> sunAngleTime(sky, eval(params.isha), times.isha, "cw")]

\* computeTimes, lines 297-300
WithMidnight(params, times) ==
    LET other == IF params.midnight = NameS("Jafari") THEN times.fajr ELSE times.sunrise
        mid == Add(times.sunset, Scale(timeDiff(times.sunset, other), 1, 2))
    IN  [name \in DOMAIN times \cup {"midnight"} |->
            IF name = "midnight" THEN mid ELSE times[name]]

ComputeTimesMidnightAfterTune(params, offs, format, sky, timeZone) ==
    LET solved == computePrayerTimes(params, sky, SeedTimes)
        adjusted == adjustTimes(params, solved, Sub(timeZone, sky.lng15))
    IN  modifyFormats(WithMidnight(params, tuneTimes(offs, adjusted)), format)

\* def computeTimes(self), with numIterations = 1
computeTimes(params, offs, format, sky, timeZone) ==
    LET solved == computePrayerTimes(params, sky, SeedTimes)
        adjusted == adjustTimes(params, solved, Sub(timeZone, sky.lng15))
    IN  modifyFormats(tuneTimes(offs, WithMidnight(params, adjusted)), format)

\* ------------------------------------------------------------ IqamahCalculator

\* ceil(a / b) for b > 0
CeilDiv(a, b) == 0 - ((0 - a) \div b)

Min(a, b) == IF a < b THEN a ELSE b
Max(a, b) == IF a > b THEN a ELSE b

\* def excel_time(hours, minutes, seconds=0), rendered with strftime('%H:%M')
excel_time(hours, minutes) ==
    LET h == (hours + minutes \div 60) % 24
        m == minutes % 60
    IN  StrV(Dec02(h) \o <<":">> \o Dec02(m))

\* minute of the day of a parsed time
MinuteOfDay(p) == 60 * p.hour + p.minute

\* floor((4 * hour + minute / 15.0) - (33 / 15.0)): in doubles the difference
\* falls just below the integer for the sunrise times 00:18, 02:03, 02:18, 02:33
FajrQuarters(T) ==
    LET exact == (T - 33) \div 15
    IN  IF T \in {18, 123, 138, 153} THEN exact - 1 ELSE exact

\* floor(hour + minute / 60.0 + 1/3): in doubles 1 + 40/60.0 + 1/3 is below 2
DhuhrHour(T) ==
    LET exact == (T + 20) \div 60
    IN  IF T = 100 THEN exact - 1 ELSE exact

AsrFloor == 870
IshaFloor == 1110
IshaCeiling == 1400
FajrCeiling == 405

\* calculate_iqamah_times, lines 450-454
fajr_iqamah(sunrise) == excel_time(0, Min(FajrCeiling, 15 * FajrQuarters(MinuteOfDay(sunrise))))
dhuhr_iqamah(dhuhr) == excel_time(DhuhrHour(MinuteOfDay(dhuhr)), 20)
asr_iqamah(asr) == excel_time(0, Max(AsrFloor, 15 * CeilDiv(MinuteOfDay(asr) + 7, 15)))
maghrib_iqamah(maghrib) == excel_time(0, 5 * CeilDiv(MinuteOfDay(maghrib) + 5, 5))
isha_iqamah(isha) ==
    excel_time(0, Min(IshaCeiling, Max(IshaFloor, 15 * CeilDiv(MinuteOfDay(isha) + 7, 15))))

IqamahNames == {"fajr_iqamah", "dhuhr_iqamah", "asr_iqamah", "maghrib_iqamah", "isha_iqamah"}

\* def calculate_iqamah_times(self, prayer_times): the exception the first
\* failing parse_time raises, or the merged mapping
calculate_iqamah_times(prayer_times) ==
    LET order == <<"sunrise", "dhuhr", "asr", "maghrib", "isha">>
        parsed == [i \in 1..5 |-> parse_time(prayer_times[order[i]])]
        failed == {i \in 1..5 : parsed[i].raised # "none"}
    IN  IF failed # {}
        THEN [raised |-> parsed[CHOOSE i \in failed : \A j \in failed : i <= j].raised,
              value |-> << >>]
        ELSE [raised |-> "none",
              value |->
                [k \in DOMAIN prayer_times \cup IqamahNames |->
                    CASE k = "fajr_iqamah"    -> fajr_iqamah(parsed[1])
                      [] k = "dhuhr_iqamah"   -> dhuhr_iqamah(parsed[2])
                      [] k = "asr_iqamah"     -> asr_iqamah(parsed[3])
                      [] k = "maghrib_iqamah" -> maghrib_iqamah(parsed[4])
                      [] k = "isha_iqamah"    -> isha_iqamah(parsed[5])
                      [] OTHER                -> prayer_times[k]]]

\* -------------------------------------------------------------- the engine

(***************************************************************************)
(* methods, settings and offset are attributes of the class PrayTimes:     *)
(* dicts that __init__ and adjust change in place, one object for every    *)
(* instance.  calcMethod and timeFormat are assigned through self, which   *)
(* gives each instance its own (the class values 'MWL' and '24h' show      *)
(* through until then).  result is what the last call returned or raised;  *)
(* first remembers the first getTimes call since the last call of another  *)
(* kind.  pin and pout are the input and output of the pure functions      *)
(* checked on their own.                                                   *)
(***************************************************************************)
VARIABLES methods, settings, offset, calcMethod, timeFormat, constructed,
          result, first, pin, pout

vars == <<methods, settings, offset, calcMethod, timeFormat, constructed,
          result, first, pin, pout>>

engineVars == <<methods, settings, offset, calcMethod, timeFormat, constructed,
                result, first>>

\* two names bound to PrayTimes objects, as PT is in prayer_times_view
Instances == {"A", "B"}

\* constructor and setMethod arguments: known names and one unknown
MethodArgs == {"MWL", "ISNA", "Makkah", "Jafari", "Hanbali"}

\* adjust arguments: those of prayer_times_view, and Makkah's isha
AdjustArgs ==
    {[fajr |-> DegS(18000), isha |-> DegS(15000), maghrib |-> MinS(0)],
     [highLats |-> NameS("AngleBased")],
     [highLats |-> NameS("None")],
     [isha |-> MinS(90000)]}

TuneArgs == {[fajr |-> 5]}

\* getTimes arguments: date, coordinates and timezone (a sky), dst, format
GetTimesArgs ==
    {[sky |-> k, dst |-> 0, format |-> f] : k \in 1..Len(Skies), f \in Formats \cup {"None"}}
        \cup {[sky |-> 1, dst |-> 1, format |-> "None"]}

NoCall == [op |-> "none", inst |-> "", raised |-> "none"]

NoFirst == [set |-> FALSE]

Idle == [kind |-> "idle"]

EngineInit ==
    /\ methods = methodsLiteral
    /\ settings = settingsLiteral
    /\ offset = << >>
    /\ calcMethod = [i \in Instances |-> "MWL"]
    /\ timeFormat = [i \in Instances |-> "24h"]
    /\ constructed = {}
    /\ result = NoCall
    /\ first = NoFirst

Init == EngineInit /\ pin = Idle /\ pout = Idle

\* __init__, lines 141-147: the loop over self.methods.items() rebinds the
\* name of the parameter, which holds the last key when the loop ends
InitMethod(method) ==
    LET last == MethodOrder[Len(MethodOrder)]
    IN  IF last \in DOMAIN methods THEN last ELSE "MWL"

\* def __init__(self, method = "MWL")
Construct(i, m) ==
    LET ms == WithDefaults(methods)
        cm == InitMethod(m)
    IN  /\ methods' = ms
        /\ calcMethod' = [calcMethod EXCEPT ![i] = cm]
        /\ settings' = Update(settings, ms[cm])
        /\ offset' = Update(offset, [name \in timeNames |-> 0])
        /\ timeFormat' = [timeFormat EXCEPT ![i] = "24h"]
        /\ constructed' = constructed \cup {i}
        /\ result' = [op |-> "init", inst |-> i, raised |-> "none", arg |-> m]
        /\ first' = NoFirst
        /\ UNCHANGED <<pin, pout>>

\* def adjust(self, params)
Adjust(i, params) ==
    /\ i \in constructed
    /\ settings' = Update(settings, params)
    /\ result' = [op |-> "adjust", inst |-> i, raised |-> "none", arg |-> params]
    /\ first' = NoFirst
    /\ UNCHANGED <<methods, offset, calcMethod, timeFormat, constructed, pin, pout>>

\* def setMethod(self, method): self.methods[method] is a dict, and reading
\* its attribute params raises AttributeError before anything is changed
SetMethod(i, m) ==
    /\ i \in constructed
    /\ result' = [op |-> "setMethod", inst |-> i, arg |-> m,
                  raised |-> IF m \in DOMAIN methods THEN "AttributeError" ELSE "none"]
    /\ first' = NoFirst
    /\ UNCHANGED <<methods, settings, offset, calcMethod, timeFormat, constructed, pin, pout>>

\* def tune(self, timeOffsets): there is no attribute offsets (the dict is
\* named offset), so the call raises AttributeError
Tune(i, timeOffsets) ==
    /\ i \in constructed
    /\ result' = [op |-> "tune", inst |-> i, raised |-> "AttributeError", arg |-> timeOffsets]
    /\ first' = NoFirst
    /\ UNCHANGED <<methods, settings, offset, calcMethod, timeFormat, constructed, pin, pout>>

\* getTimes, lines 187-188: the format the call computes with, and leaves
\* in self.timeFormat
FormatAfter(i, a) == IF a.format # "None" THEN a.format ELSE timeFormat[i]

\* getTimes, lines 184-193: the mapping the call returns
getTimes(i, a) ==
    LET sky == Skies[a.sky]
        timeZone == Add(sky.timezone, IF a.dst # 0 THEN H ELSE 0)
    IN  computeTimes(settings, offset, FormatAfter(i, a), sky, timeZone)

\* def getTimes(self, date, coords, timezone, dst = 0, format = None)
GetTimes(i, a) ==
    /\ i \in constructed
    /\ timeFormat' = [timeFormat EXCEPT ![i] = FormatAfter(i, a)]
    /\ LET v == getTimes(i, a)
       IN  /\ result' = [op |-> "getTimes", inst |-> i, raised |-> "none", arg |-> a,
                         value |-> v]
           /\ first' = IF first.set THEN first
                       ELSE [set |-> TRUE, inst |-> i, arg |-> a, value |-> v]
    /\ UNCHANGED <<methods, settings, offset, calcMethod, constructed, pin, pout>>

\* def getPrayerAndIqamahTimes(self, date, coords, timezone, dst=0, format=None)
GetPrayerAndIqamahTimes(i, a) ==
    /\ i \in constructed
    /\ timeFormat' = [timeFormat EXCEPT ![i] = FormatAfter(i, a)]
    /\ LET r == calculate_iqamah_times(getTimes(i, a))
       IN  result' = [op |-> "getPrayerAndIqamahTimes", inst |-> i, arg |-> a,
                      raised |-> r.raised, value |-> r.value]
    /\ first' = NoFirst
    /\ UNCHANGED <<methods, settings, offset, calcMethod, constructed, pin, pout>>

\* def getMethod(self), getSettings(self), getOffsets(self), getDefaults(self)
getMethod(i) == calcMethod[i]
getSettings(i) == settings
getOffsets(i) == offset
getDefaults(i) == methods

(***************************************************************************)
(* Spec: the configuration interface, on two instances.                    *)
(***************************************************************************)
Next ==
    \/ \E i \in Instances, m \in MethodArgs : Construct(i, m)
    \/ \E i \in Instances, p \in AdjustArgs : Adjust(i, p)
    \/ \E i \in Instances, m \in MethodArgs : SetMethod(i, m)
    \/ \E i \in Instances, o \in TuneArgs : Tune(i, o)

Spec == Init /\ [][Next]_vars

(***************************************************************************)
(* SpecCalls: one instance, configured and asked for times, as             *)
(* prayer_times_view does with PT.                                         *)
(***************************************************************************)
NextCalls ==
    \/ \E m \in MethodArgs : Construct("A", m)
    \/ \E p \in AdjustArgs : Adjust("A", p)
    \/ \E a \in GetTimesArgs : GetTimes("A", a)
    \/ \E a \in GetTimesArgs : GetPrayerAndIqamahTimes("A", a)

SpecCalls == Init /\ [][NextCalls]_vars


\* ------------------------------------------------- the functions on their own

\* SpecFormat: getFormattedTime(t, '24h') on NaN and on the times within one
\* tick of every half minute between -MaxHalfMinutes and +MaxHalfMinutes
MaxHalfMinutes == 3600

FormatInputs ==
    {NaN} \cup {t \in {k * HalfMinute + d : k \in (0 - MaxHalfMinutes)..MaxHalfMinutes,
                                             d \in {0 - 1, 0, 1}} : Fl(t) = t}

InitFormat ==
    /\ EngineInit
    /\ pin \in {[kind |-> "fmt", time |-> t] : t \in FormatInputs}
    /\ pout = Idle

Format ==
    /\ pin.kind = "fmt"
    /\ pout = Idle
    /\ pout' = [kind |-> "fmt", value |-> getFormattedTime(pin.time, "24h")]
    /\ UNCHANGED <<engineVars, pin>>

SpecFormat == InitFormat /\ [][Format]_vars

\* SpecIqamah: calculate_iqamah_times on formatted prayer times; every one of
\* the five anchors takes every minute of the day
MinutesPerDay == 24 * 60
ShiftStep == 360
MaxShift == 2

HHMM(T) == getFormattedTime((T % MinutesPerDay) * Minute, "24h")

IqamahInputs ==
    {[imsak |-> HHMM(T), fajr |-> HHMM(T), sunset |-> HHMM(T), midnight |-> HHMM(T),
      asr |-> HHMM(T), isha |-> HHMM(T + k * ShiftStep),
      maghrib |-> HHMM(T + 2 * k * ShiftStep), dhuhr |-> HHMM(T + 3 * k * ShiftStep),
      sunrise |-> HHMM(T + 4 * k * ShiftStep)] :
        T \in 0..(MinutesPerDay - 1), k \in 0..MaxShift}

InitIqamah ==
    /\ EngineInit
    /\ pin \in {[kind |-> "iqamah", times |-> x] : x \in IqamahInputs}
    /\ pout = Idle

Iqamah ==
    /\ pin.kind = "iqamah"
    /\ pout = Idle
    /\ LET r == calculate_iqamah_times(pin.times)
       IN  pout' = [kind |-> "iqamah", raised |-> r.raised, value |-> r.value]
    /\ UNCHANGED <<engineVars, pin>>

SpecIqamah == InitIqamah /\ [][Iqamah]_vars

\* the settings a constructed engine holds, those of prayer_times_view, and
\* Makkah's isha
ConstructedSettings == Update(settingsLiteral, WithDefaults(methodsLiteral)[InitMethod("MWL")])

BaseSettings ==
    {ConstructedSettings,
     Update(ConstructedSettings, [fajr |-> DegS(18000), isha |-> DegS(15000), maghrib |-> MinS(0)]),
     Update(ConstructedSettings, [isha |-> MinS(90000)])}

\* SpecHighLats: adjustHighLats on times of a grid of whole hours, any of
\* sunrise, sunset and the four twilight times possibly NaN
GridHours == 3
MaxGrid == 8

Grid == {k * GridHours * H : k \in 0..MaxGrid}

HighLatsInputs ==
    {[params |-> Update(st, [highLats |-> NameS(hl)]),
      times |-> [imsak |-> t, fajr |-> t, sunrise |-> rise, dhuhr |-> 12 * H,
                 asr |-> 15 * H, sunset |-> set, maghrib |-> t, isha |-> t]] :
        st \in BaseSettings, hl \in {"NightMiddle", "AngleBased", "OneSeventh"},
        t \in Grid \cup {NaN}, rise \in Grid \cup {NaN}, set \in Grid \cup {NaN}}

InitHighLats ==
    /\ EngineInit
    /\ pin \in {[kind |-> "hl", params |-> x.params, times |-> x.times] : x \in HighLatsInputs}
    /\ pout = Idle

HighLats ==
    /\ pin.kind = "hl"
    /\ pout = Idle
    /\ pout' = [kind |-> "hl", times |-> adjustHighLats(pin.params, pin.times)]
    /\ UNCHANGED <<engineVars, pin>>

SpecHighLats == InitHighLats /\ [][HighLats]_vars

\* SpecAdjust: adjustTimes on ordered solved times (fajr <= sunrise <= dhuhr
\* <= asr <= sunset) under settings whose imsak, maghrib and isha are minutes
MinuteSettings ==
    {Update(ConstructedSettings, [imsak |-> MinS(i), maghrib |-> MinS(m), isha |-> MinS(e),
                                  highLats |-> NameS(hl)]) :
        i \in {0, 10000}, m \in {0, 5000}, e \in {0, 90000}, hl \in {"None", "NightMiddle"}}

OrderedTimes ==
    {[imsak |-> f, fajr |-> f, sunrise |-> r, dhuhr |-> d, asr |-> a, sunset |-> s,
      maghrib |-> s, isha |-> s] :
        f \in Grid, r \in Grid, d \in Grid, a \in Grid,
        s \in {x \in Grid : x >= 5 * GridHours * H}}

AdjustInputs ==
    {[params |-> st, times |-> x] :
        st \in MinuteSettings,
        x \in {y \in OrderedTimes : y.fajr <= y.sunrise /\ y.sunrise <= y.dhuhr
                                    /\ y.dhuhr <= y.asr /\ y.asr <= y.sunset}}

InitAdjust ==
    /\ EngineInit
    /\ pin \in {[kind |-> "adj", params |-> x.params, times |-> x.times] : x \in AdjustInputs}
    /\ pout = Idle

AdjustTimes ==
    /\ pin.kind = "adj"
    /\ pout = Idle
    /\ pout' = [kind |-> "adj", times |-> adjustTimes(pin.params, pin.times, 0)]
    /\ UNCHANGED <<engineVars, pin>>

SpecAdjust == InitAdjust /\ [][AdjustTimes]_vars

\* ------------------------------------------------ eval, isMin on characters

(***************************************************************************)
(* The settings hold what the caller passed: an int (18), a float (17.5)   *)
(* or a string ("90 min").  eval renders it with str and works on the      *)
(* characters.  A number is a mantissa m and a count e of fraction digits  *)
(* (m / 10^e), kept without trailing fraction zeros.                       *)
(***************************************************************************)
IntV(n) == [int |-> n]
DecV(m, e) == [dec |-> <<m, e>>]

RECURSIVE Pow10(_)
Pow10(e) == IF e = 0 THEN 1 ELSE 10 * Pow10(e - 1)

RECURSIVE Norm(_, _)
Norm(m, e) == IF e > 0 /\ m % 10 = 0 THEN Norm(m \div 10, e - 1) ELSE <<m, e>>

\* "%0*d" % (width, n), n >= 0
RECURSIVE DecPad(_, _)
DecPad(n, width) ==
    IF width = 0 THEN << >> ELSE DecPad(n \div 10, width - 1) \o <<DigitChar(n % 10)>>

\* str(st) for a string, a non-negative int, a non-negative float
strOf(st) ==
    IF IsStr(st) THEN st.str
    ELSE IF DOMAIN st = {"int"} THEN Dec(st.int)
    ELSE LET n == Norm(st.dec[1], st.dec[2])
             e == IF n[2] = 0 THEN 1 ELSE n[2]
             m == IF n[2] = 0 THEN 10 * n[1] ELSE n[1]
         IN  Dec(m \div Pow10(e)) \o <<".">> \o DecPad(m % Pow10(e), e)

\* the characters the pattern [^0-9.+-] does not split at
TokenChars == {DigitChar(d) : d \in 0..9} \cup {".", "+", "-"}

\* re.split('[^0-9.+-]', s, 1)[0]: what precedes the first other character
split0(s) ==
    LET other == {i \in 1..Len(s) : s[i] \notin TokenChars}
    IN  IF other = {} THEN s
        ELSE SubSeq(s, 1, (CHOOSE i \in other : \A j \in other : i <= j) - 1)

\* the number a sequence of digits writes
RECURSIVE DigitsVal(_)
DigitsVal(s) ==
    IF s = << >> THEN 0 ELSE 10 * DigitsVal(SubSeq(s, 1, Len(s) - 1)) + DigitVal(s[Len(s)])

\* float(val) literals over the token characters: an optional sign, then
\* digits with at most one point and at least one digit
IsFloatLiteral(val) ==
    LET signed == val # << >> /\ val[1] \in {"+", "-"}
        body == IF signed THEN Tail(val) ELSE val
    IN  /\ \A i \in 1..Len(body) : IsDigit(body[i]) \/ body[i] = "."
        /\ Cardinality({i \in 1..Len(body) : body[i] = "."}) <= 1
        /\ \E i \in 1..Len(body) : IsDigit(body[i])

\* float(val): the number, or ValueError
float(val) ==
    IF ~IsFloatLiteral(val) THEN [raised |-> "ValueError", value |-> <<0, 0>>]
    ELSE LET body == IF val[1] \in {"+", "-"} THEN Tail(val) ELSE val
             point == {i \in 1..Len(body) : body[i] = "."}
             e == IF point = {} THEN 0 ELSE Len(body) - (CHOOSE i \in point : TRUE)
             m == DigitsVal(SelectSeq(body, IsDigit))
         IN  [raised |-> "none",
              value |-> Norm(IF val[1] = "-" THEN 0 - m ELSE m, e)]

\* def eval(self, st), lines 391-393, on the characters of str(st)
evalChars(st) ==
    LET val == split0(strOf(st))
    IN  IF val # << >> THEN float(val) ELSE [raised |-> "none", value |-> <<0, 0>>]

\* arg.find('min') > -1
findMin(s) == \E i \in 1..(Len(s) - 2) : SubSeq(s, i, i + 2) = <<"m", "i", "n">>

\* def isMin(self, arg), lines 396-397, on the value the caller passed
isMinChars(arg) == IsStr(arg) /\ findMin(arg.str)

\* SpecEval: eval and isMin on the ints and floats the methods use, and on
\* every string made of at most MaxTokenLen characters of TokenAlphabet
\* followed by one of Suffixes
MaxTokenLen == 3

TokenAlphabet == {"0", "9", ".", "+", "-"}

Suffixes ==
    {<< >>, <<" ", "m", "i", "n">>, <<"m", "i", "n">>, <<" ", "m", "i">>,
     <<"S", "t", "a", "n", "d", "a", "r", "d">>, <<"e", "5">>}

RECURSIVE Strings(_)
Strings(n) ==
    IF n = 0 THEN {<< >>}
    ELSE LET shorter == Strings(n - 1)
         IN  shorter \cup {Append(s, c) : s \in shorter, c \in TokenAlphabet}

EvalInputs ==
    {StrV(t \o x) : t \in Strings(MaxTokenLen), x \in Suffixes}
        \cup {IntV(0), IntV(18), DecV(175, 1), DecV(180, 1), DecV(833, 3)}

InitEval ==
    /\ EngineInit
    /\ pin \in {[kind |-> "eval", st |-> v] : v \in EvalInputs}
    /\ pout = Idle

Eval ==
    /\ pin.kind = "eval"
    /\ pout = Idle
    /\ LET r == evalChars(pin.st)
       IN  pout' = [kind |-> "eval", raised |-> r.raised, value |-> r.value,
                    isMin |-> isMinChars(pin.st)]
    /\ UNCHANGED <<engineVars, pin>>

SpecEval == InitEval /\ [][Eval]_vars

\* SpecMidnight: computeTimes under either midnight setting and offsets of
\* Sunset, Sunrise, Fajr and Midnight, the other offsets 0 as __init__ sets
\* them; the times are returned as numbers (format 'Float')
OffsetChoices == {0 - 3, 0, 5}

ZeroOffsets == [name \in timeNames |-> 0]

OffsetInputs ==
    {Update(ZeroOffsets, [sunset |-> a, sunrise |-> b, fajr |-> c, midnight |-> d]) :
        a \in OffsetChoices, b \in OffsetChoices, c \in OffsetChoices, d \in OffsetChoices}

MidnightSettings ==
    {Update(st, [midnight |-> NameS(mm), highLats |-> NameS(hl)]) :
        st \in BaseSettings, mm \in {"Standard", "Jafari"}, hl \in {"NightMiddle", "None"}}

InitMidnight ==
    /\ EngineInit
    /\ pin \in {[kind |-> "mid", params |-> st, offs |-> o, sky |-> k] :
                  st \in MidnightSettings, o \in OffsetInputs, k \in 1..Len(Skies)}
    /\ pout = Idle

Midnight ==
    /\ pin.kind = "mid"
    /\ pout = Idle
    /\ LET sky == Skies[pin.sky]
       IN  pout' = [kind |-> "mid",
                    times |-> computeTimes(pin.params, pin.offs, "Float", sky, sky.timezone)]
    /\ UNCHANGED <<engineVars, pin>>

SpecMidnight == InitMidnight /\ [][Midnight]_vars

\* ------------------------------------------------------------------ claims

PresetNames == {"fajr", "isha", "maghrib", "midnight"}

\* C1: getPrayerAndIqamahTimes returns, for every input and every display
\* format and also when a prayer time is the invalid-time marker, without
\* raising, a mapping with the nine prayer keys and the five iqamah keys.
C1_MergedMappingAlwaysReturned ==
    result.op = "getPrayerAndIqamahTimes" =>
        /\ result.raised = "none"
        /\ DOMAIN result.value = timeNames \cup IqamahNames

\* the step is a call of op on instance i (every call leaves its record)
Called(op, i) == result'.op = op /\ result'.inst = i

\* C2: configuration is instance-owned: a constructor, adjust, tune or
\* setMethod call on instance A leaves what B.getSettings(), B.getOffsets()
\* and B.getDefaults() return unchanged, for every other instance B.
C2_InstanceOwnedConfiguration ==
    [][\A a \in Instances : \A b \in (Instances \ {a}) \cap constructed :
          (\E op \in {"init", "adjust", "setMethod", "tune"} : Called(op, a)) =>
              /\ getSettings(b)' = getSettings(b)
              /\ getOffsets(b)' = getOffsets(b)
              /\ getDefaults(b)' = getDefaults(b)]_vars

\* C3: after PrayTimes(m), getMethod() is m and the settings hold m's
\* presets when m is a known method; otherwise construction succeeds and
\* getMethod() is MWL with MWL's presets.
C3_ConstructorSelectsMethod ==
    result.op = "init" =>
        LET i == result.inst
            expected == IF result.arg \in MethodNames THEN result.arg ELSE "MWL"
            presets == WithDefaults(methodsLiteral)[expected]
        IN  /\ result.raised = "none"
            /\ getMethod(i) = expected
            /\ \A name \in PresetNames : getSettings(i)[name] = presets[name]

\* C4: setMethod(name) never raises; for a known name it merges the
\* method's params into the settings and getMethod() returns name; for an
\* unknown name the method, the settings and the offsets stay as they are.
C4_SetMethodNeverRaises ==
    [][\A i \in Instances :
          Called("setMethod", i) =>
              LET m == result'.arg
              IN  /\ result'.raised = "none"
                  /\ IF m \in MethodNames
                     THEN /\ getMethod(i)' = m
                          /\ getSettings(i)' = Update(settings, methods[m])
                     ELSE UNCHANGED <<calcMethod, settings, offset>>]_vars

\* C5: after tune({p: k}) getOffsets()[p] is k (the offset tuneTimes then
\* adds to p) and the offsets of all other prayers are unchanged.
C5_TuneUpdatesOffsets ==
    [][\A i \in Instances :
          Called("tune", i) =>
              LET o == result'.arg
              IN  /\ result'.raised = "none"
                  /\ \A p \in DOMAIN o : getOffsets(i)'[p] = o[p]
                  /\ \A q \in timeNames \ DOMAIN o : getOffsets(i)'[q] = getOffsets(i)[q]]_vars

\* C6: two getTimes calls with identical arguments, with nothing but
\* getTimes calls between them, return identical mappings.
C6_GetTimesRepeatable ==
    (/\ result.op = "getTimes"
     /\ first.set
     /\ first.inst = result.inst
     /\ first.arg = result.arg) => result.value = first.value

\* the parsed minute M is a nearest minute of time t modulo 24 hours, to
\* within the four ticks rounding can move a time
NearestMinute(t, M) ==
    LET d == (t - M * Minute) % Day
    IN  d <= HalfMinute + 4 \/ d >= Day - (HalfMinute + 4)

\* C7: for every valid Asr and Isha start time the rendered Asr-iqamah is
\* never below 870 minutes of the day (14:30), and the Isha-iqamah never
\* below 1110 (18:30) nor above 1400 (23:20).
C7_IqamahClamps ==
    (pout.kind = "iqamah" /\ pout.raised = "none") =>
        LET asr == MinuteOfDay(parse_time(pout.value.asr_iqamah))
            isha == MinuteOfDay(parse_time(pout.value.isha_iqamah))
        IN  /\ asr >= 870
            /\ isha >= 1110
            /\ isha <= 1400

\* the time lies within its portion of the night of its anchor
WithinPortion(params, time, base, spec, night, direction) ==
    LET portion == nightPortion(params, eval(spec), night)
        diff == IF direction = "ccw" THEN timeDiff(time, base) ELSE timeDiff(base, time)
    IN  ~isnan(time) /\ ~isnan(diff) /\ ~isnan(portion) /\ diff <= portion

TwilightWithinPortion(params, before, after) ==
    LET night == timeDiff(before.sunset, before.sunrise)
    IN  /\ WithinPortion(params, after.imsak, after.sunrise, params.imsak, night, "ccw")
        /\ WithinPortion(params, after.fajr, after.sunrise, params.fajr, night, "ccw")
        /\ WithinPortion(params, after.isha, after.sunset, params.isha, night, "cw")
        /\ WithinPortion(params, after.maghrib, after.sunset, params.maghrib, night, "cw")

C9_FormatRoundTrip ==
    pout.kind = "fmt" =>
        IF isnan(pin.time) THEN pout.value = StrV(invalidTime)
        ELSE /\ IsStr(pout.value)
             /\ Len(pout.value.str) = 5
             /\ pout.value.str[3] = ":"
             /\ LET p == parse_time(pout.value)
                IN  /\ p.raised = "none"
                    /\ p.hour \in 0..23
                    /\ p.minute \in 0..59
                    /\ NearestMinute(pin.time, MinuteOfDay(p))

\* C10: from ordered solved times and non-negative minute specs for Imsak,
\* Maghrib and Isha, adjustTimes yields Imsak <= Fajr and
\* Sunset <= Maghrib <= Isha.
C10_MinuteSpecsKeepOrder ==
    pout.kind = "adj" =>
        /\ pout.times.imsak <= pout.times.fajr
        /\ pout.times.sunset <= pout.times.maghrib
        /\ pout.times.maghrib <= pout.times.isha

\* the leading signed numeric token of a string: its longest prefix that
\* writes a number; the number it writes, 0 when there is none
LeadingNumber(s) ==
    LET tokens == {n \in 1..Len(s) : IsFloatLiteral(SubSeq(s, 1, n))}
    IN  IF tokens = {} THEN <<0, 0>>
        ELSE float(SubSeq(s, 1, CHOOSE n \in tokens : \A k \in tokens : k <= n)).value

\* the number an angle-spec value stands for
SpecNumber(st) ==
    IF IsStr(st) THEN LeadingNumber(st.str)
    ELSE IF DOMAIN st = {"int"} THEN <<st.int, 0>>
    ELSE Norm(st.dec[1], st.dec[2])

\* C11: eval never raises: for every angle-spec value it returns the leading
\* signed numeric token as a number, and 0 when the string has none (also
\* when it starts with only sign or dot characters); isMin is true exactly
\* for the strings containing 'min' and false for numbers.
C11_EvalNeverRaises ==
    pout.kind = "eval" =>
        /\ pout.raised = "none"
        /\ pout.value = SpecNumber(pin.st)
        /\ pout.isMin = (IsStr(pin.st) /\ findMin(pin.st.str))

\* the times before tuning: solved, moved to the timezone, corrected for
\* high latitudes, with the minute-based overrides
BeforeTuning(params, sky) ==
    adjustTimes(params, computePrayerTimes(params, sky, SeedTimes),
                Sub(sky.timezone, sky.lng15))

\* Sunset + fixhour(other - Sunset) / 2
HalfWay(sunset, other) == Add(sunset, Scale(fixhour(Sub(other, sunset)), 1, 2))

\* a time as format 'Float' returns it
Shown(time) == IF isnan(time) THEN StrV(invalidTime) ELSE FltV(time)

\* C12: the Midnight computeTimes returns is Sunset + fixhour(Fajr - Sunset)/2
\* under the midnight setting 'Jafari' and Sunset + fixhour(Sunrise - Sunset)/2
\* otherwise, of the times as they are after the timezone adjustment, the
\* high-latitude correction and the minute-based overrides and before tuning,
\* plus the Midnight offset: the offsets of Sunset, Sunrise and Fajr do not
\* move it.
C12_MidnightBeforeTuning ==
    pout.kind = "mid" =>
        LET sky == Skies[pin.sky]
            times == BeforeTuning(pin.params, sky)
            other == IF pin.params.midnight = NameS("Jafari") THEN times.fajr
                     ELSE times.sunrise
            untuned == Update(pin.offs, [sunset |-> 0, sunrise |-> 0, fajr |-> 0])
        IN  /\ pout.times.midnight =
                  Shown(Add(HalfWay(times.sunset, other), Scale(pin.offs.midnight, H, 60)))
            /\ pout.times.midnight =
                  computeTimes(pin.params, untuned, "Float", sky, sky.timezone).midnight

\* a Jafari midnight on a day with a sunset and a Fajr, returned under
\* offsets of Sunset, Sunrise, Fajr and Midnight that all differ from 0, the
\* returned Sunset being the tuned one
C12_Witness ==
    /\ pout.kind = "mid"
    /\ pin.params.midnight = NameS("Jafari")
    /\ \A name \in {"sunset", "sunrise", "fajr", "midnight"} : pin.offs[name] # 0
    /\ ~IsStr(pout.times.midnight)
    /\ ~IsStr(pout.times.sunset)
    /\ pout.times.sunset.flt # BeforeTuning(pin.params, Skies[pin.sky]).sunset
    /\ pout.times.midnight.flt # pout.times.sunset.flt

\* C13: for every valid formatted PrayerTimeSet, each of the Dhuhr, Asr,
\* Maghrib and Isha iqamah times calculate_iqamah_times returns is, as a
\* minute of the same day, not earlier than the start time of its prayer.
C13_IqamahNotBeforeStart ==
    (pout.kind = "iqamah" /\ pout.raised = "none") =>
        \A prayer \in {"dhuhr", "asr", "maghrib", "isha"} :
            LET start == MinuteOfDay(parse_time(pin.times[prayer]))
                iqamah == MinuteOfDay(parse_time(
                              CASE prayer = "dhuhr"   -> pout.value.dhuhr_iqamah
                                [] prayer = "asr"     -> pout.value.asr_iqamah
                                [] prayer = "maghrib" -> pout.value.maghrib_iqamah
                                [] OTHER              -> pout.value.isha_iqamah))
            IN  iqamah >= start

====
